---- MODULE Spec2Model ----
(***************************************************************************)
(* Model of the view-selection logic of                                    *)
(*   src/lib/@empirica/core/src/player/classic/react/EmpiricaContext.tsx   *)
(* EmpiricaContext (the outer gate), EmpiricaInnerContext (the inner gate) *)
(* and useAllReady (the readiness predicate), re-evaluated on every change *)
(* of the values their hooks return.                                       *)
(***************************************************************************)
EXTENDS Naturals, Sequences, FiniteSets, TLC

VARIABLES
  props,                \* the five boolean props, lines 68-72
  tajribaConnected,     \* useTajribaConnected(), line 75
  participantConnected, \* usePartConnected(), line 76
  globals,              \* useGlobal(), line 77
  player,               \* usePlayer(), line 78
  game,                 \* useGame(), line 79
  connecting,           \* usePlayerID()[0], line 80
  hasPlayer,            \* usePlayerID()[1], line 80
  consented,            \* useConsent()[0], line 81
  players,              \* usePlayers(), line 217
  stage,                \* useStage(), line 219
  round,                \* useRound(), line 220
  introDone,            \* whether the intro Steps have been completed
  search,               \* window.location.search, line 122
  screen,               \* what the last evaluation pass rendered
  via,                  \* the line of the return statement that decided it
  allReady,             \* what useAllReady returned in that pass, line 172
  writes                \* the calls of player.set("urlParams", ..), line 123

vars == <<props, tajribaConnected, participantConnected, globals, player, game,
          connecting, hasPlayer, consented, players, stage, round, introDone,
          search, screen, via, allReady, writes>>

----------------------------------------------------------------------------
(* Bounds of the model. *)

\* longest player list
MaxPlayers == 2
\* largest treatment.playerCount
MaxPlayerCount == 2

----------------------------------------------------------------------------
(* Values. *)

\* Strings that are parsed are sequences of one-character strings.
EmptyMap == [k \in {} |-> <<>>]

\* The query strings a page is opened with: none, and the one of the
\* documentation ("?what=hello&some=thing", shortened to one-letter names).
Searches == { <<>>, <<"?", "a", "=", "1", "&", "b", "=", "2">> }

\* A player of usePlayers(): which of p.game, p.round, p.stage are set. The
\* lists of the model hold players that are placed, or lack one of the three.
Placed == [game |-> TRUE, round |-> TRUE, stage |-> TRUE]

Member == {Placed, [Placed EXCEPT !.game = FALSE],
           [Placed EXCEPT !.round = FALSE], [Placed EXCEPT !.stage = FALSE]}

NoPlayer == [present |-> FALSE, ended |-> FALSE, gameID |-> FALSE,
             urlParams |-> [set |-> FALSE, map |-> EmptyMap],
             game |-> FALSE, round |-> FALSE, stage |-> FALSE]

NoTreatment == [present |-> FALSE, hasCount |-> FALSE, playerCount |-> 0]

\* useGame() is undefined while the game of the player is not known yet, null
\* when the player has no game, and a Game otherwise.
UndefinedGame == [state |-> "undefined", status |-> FALSE, hasEnded |-> FALSE,
                  treatment |-> NoTreatment]
NullGame == [UndefinedGame EXCEPT !.state = "null"]

NoGlobals == [loaded |-> FALSE, experimentOpen |-> FALSE]

NoPlayers == [present |-> FALSE, list |-> <<>>]

----------------------------------------------------------------------------
(* new URLSearchParams(window.location.search), line 122: a leading "?"    *)
(* is dropped, the rest is cut at every "&", empty pieces are skipped, and *)
(* each piece is cut at its first "=" into a name and a value (the value   *)
(* is empty when there is no "="). The alphabet of Searches has no "+" or  *)
(* "%", so no decoding takes place.                                        *)

\* index of the first c in str, or 0
RECURSIVE IndexOf(_, _, _)
IndexOf(str, c, i) ==
  IF i > Len(str) THEN 0
  ELSE IF str[i] = c THEN i
  ELSE IndexOf(str, c, i + 1)

RECURSIVE Split(_, _)
Split(str, c) ==
  LET i == IndexOf(str, c, 1)
  IN  IF i = 0 THEN <<str>>
      ELSE <<SubSeq(str, 1, i - 1)>> \o Split(SubSeq(str, i + 1, Len(str)), c)

ParsePair(piece) ==
  LET i == IndexOf(piece, "=", 1)
  IN  IF i = 0 THEN <<piece, <<>> >>
      ELSE <<SubSeq(piece, 1, i - 1), SubSeq(piece, i + 1, Len(piece))>>

RECURSIVE ParsePieces(_)
ParsePieces(pieces) ==
  IF pieces = <<>> THEN <<>>
  ELSE IF Head(pieces) = <<>> THEN ParsePieces(Tail(pieces))
  ELSE <<ParsePair(Head(pieces))>> \o ParsePieces(Tail(pieces))

URLSearchParams(str) ==
  LET query == IF str # <<>> /\ Head(str) = "?" THEN Tail(str) ELSE str
  IN  ParsePieces(Split(query, "&"))

\* Object.fromEntries, line 123: a later entry of the same name wins.
RECURSIVE FromEntries(_)
FromEntries(entries) ==
  IF entries = <<>> THEN EmptyMap
  ELSE LET n    == Len(entries)
           last == entries[n]
       IN  (last[1] :> last[2]) @@ FromEntries(SubSeq(entries, 1, n - 1))

----------------------------------------------------------------------------
(* useAllReady, lines 215-250. s is the snapshot of the hooks' values.     *)

GamePresent(s) == s.game.state = "present"

\* lines 222-231: anything missing
NotAllPresent(s) ==
  \/ ~s.player.present
  \/ ~s.players.present
  \/ ~s.stage
  \/ ~s.round
  \/ ~GamePresent(s)
  \/ ~s.player.game
  \/ ~s.player.round
  \/ ~s.player.stage

\* an undefined playerCount taken as never reached
TooFewPlayers_UndefinedBlocks(s) ==
  \/ ~s.game.treatment.hasCount
  \/ Len(s.players.list) < s.game.treatment.playerCount

\* line 239: players.length < playerCount; a comparison with undefined is false
TooFewPlayers(s) ==
  s.game.treatment.hasCount /\ Len(s.players.list) < s.game.treatment.playerCount

\* a loop that forgets the stage
SomeMemberNotPlaced_ForgetsStage(s) ==
  \E i \in 1..Len(s.players.list) :
    LET p == s.players.list[i]
    IN  ~p.game \/ ~p.round

\* lines 243-247
SomeMemberNotPlaced(s) ==
  \E i \in 1..Len(s.players.list) :
    LET p == s.players.list[i]
    IN  ~p.game \/ ~p.round \/ ~p.stage

\* "true", "false", or "TypeError" when line 237 reads playerCount of an
\* undefined treatment
useAllReady(s) ==
  IF NotAllPresent(s) THEN "false"
  ELSE IF ~s.game.treatment.present THEN "TypeError"
  ELSE IF TooFewPlayers(s) THEN "false"
  ELSE IF SomeMemberNotPlaced(s) THEN "false"
  ELSE "true"

----------------------------------------------------------------------------
(* EmpiricaInnerContext, lines 162-199.                                    *)

\* what a pass yields: the screen, the line that returned it, the player, what
\* useAllReady returned ("none" when it was not called) and whether line 123
\* wrote the URL parameters
Out(scr, line, pl) ==
  [screen |-> scr, via |-> line, player |-> pl, ready |-> "none",
   wrote |-> FALSE]

\* line 174
NoGame(s) == ~GamePresent(s)

\* line 182
NotStarted(s) == ~s.game.status

\* line 186
GameEnded(s) == s.game.hasEnded

\* the readiness test negated
RenderChildren_Negated(s, ready) == s.props.unmanagedGame \/ ready # "true"

\* line 194
RenderChildren(s, ready) == s.props.unmanagedGame \/ ready = "true"

\* the guards with the tests of lines 182 and 186 in the other order
InnerGuards_EndedFirst(s, ready) ==
  IF NoGame(s) THEN
    IF s.props.unmanagedGame THEN Out("Children", "176", s.player)
    ELSE Out("Loading", "178", s.player)
  ELSE IF GameEnded(s) THEN
    IF ~(s.player.present /\ s.player.ended) THEN Out("Loading", "188", s.player)
    ELSE Out("Exit", "191", s.player)
  ELSE IF NotStarted(s) THEN Out("Lobby", "183", s.player)
  ELSE IF RenderChildren(s, ready) THEN Out("Children", "195", s.player)
  ELSE Out("Loading", "198", s.player)

\* the guards of lines 174-198, given the value useAllReady returned
InnerGuards(s, ready) ==
  IF NoGame(s) THEN
    IF s.props.unmanagedGame THEN Out("Children", "176", s.player)
    ELSE Out("Loading", "178", s.player)
  ELSE IF NotStarted(s) THEN Out("Lobby", "183", s.player)
  ELSE IF GameEnded(s) THEN
    IF ~(s.player.present /\ s.player.ended) THEN Out("Loading", "188", s.player)
    ELSE Out("Exit", "191", s.player)
  ELSE IF RenderChildren(s, ready) THEN Out("Children", "195", s.player)
  ELSE Out("Loading", "198", s.player)

\* line 172 calls useAllReady before any guard: when it throws nothing is
\* rendered
EmpiricaInnerContext(s) ==
  LET ready == useAllReady(s)
  IN  [(IF ready = "TypeError" THEN Out("Error", "237", s.player)
        ELSE InnerGuards(s, ready)) EXCEPT !.ready = ready]

\* The Steps component (not in this file): it shows its steps until they are
\* done, and its children afterwards.
Steps(done, s) ==
  IF done THEN EmpiricaInnerContext(s)
  ELSE Out("IntroSteps", "139", s.player)

----------------------------------------------------------------------------
(* EmpiricaContext, lines 58-151.                                          *)

\* line 83
NotConnected(s) == ~s.tajribaConnected \/ s.connecting

\* an ended player is looked at only when there is a game
PlayerEnded_RequiresGame(s) ==
  s.player.present /\ s.player.ended /\ GamePresent(s)

\* line 87
PlayerEnded(s) == s.player.present /\ s.player.ended

\* without the test of the game that is still undefined
StillLoading_IgnoresUndefinedGame(s) ==
  \/ ~s.globals.loaded
  \/ /\ s.hasPlayer
     /\ \/ ~s.participantConnected
        \/ ~s.player.present

\* without the test of the globals
StillLoading_IgnoresGlobals(s) ==
  /\ s.hasPlayer
  /\ \/ ~s.participantConnected
     \/ ~s.player.present
     \/ s.game.state = "undefined"

\* lines 91-94
StillLoading(s) ==
  \/ ~s.globals.loaded
  \/ /\ s.hasPlayer
     /\ \/ ~s.participantConnected
        \/ ~s.player.present
        \/ s.game.state = "undefined"

\* without the test of disableNoGames
ExperimentClosed_IgnoresDisable(s) ==
  /\ ~s.globals.experimentOpen
  /\ (~s.hasPlayer \/ ~(s.player.present /\ s.player.gameID))

\* without the test of experimentOpen
ExperimentClosed_IgnoresOpen(s) ==
  /\ ~s.props.disableNoGames
  /\ (~s.hasPlayer \/ ~(s.player.present /\ s.player.gameID))

\* lines 98-102
ExperimentClosed(s) ==
  /\ ~s.props.disableNoGames
  /\ ~s.globals.experimentOpen
  /\ (~s.hasPlayer \/ ~(s.player.present /\ s.player.gameID))

\* line 106
NeedsConsent(s) == ~s.props.disableConsent /\ ~s.consented

\* line 110
NeedsPlayer(s) == ~s.hasPlayer

\* without the test of the game
PlayerOrGameMissing_OnlyPlayer(s) == ~s.player.present

\* line 116
PlayerOrGameMissing(s) ==
  ~s.player.present \/ (~s.props.unmanagedGame /\ ~GamePresent(s))

\* without the test of what the player already holds
ShouldCapture_Always(s) == ~s.props.disableURLParamsCapture

\* line 121: an object, even an empty one, is truthy
ShouldCapture(s) == ~s.props.disableURLParamsCapture /\ ~s.player.urlParams.set

\* lines 121-124
CaptureURLParams(s) ==
  IF ShouldCapture(s)
  THEN [s EXCEPT !.player.urlParams =
          [set |-> TRUE, map |-> FromEntries(URLSearchParams(s.search))]]
  ELSE s

\* without the test of the ended game of lines 130-136
AfterCapture_NoEndedGameTest(s) ==
  IF s.props.unmanagedAssignment THEN Out("Children", "127", s.player)
  ELSE Steps(s.introDone, s)

\* lines 126-150, after the capture
AfterCapture(s) ==
  IF s.props.unmanagedAssignment THEN Out("Children", "127", s.player)
  ELSE IF GamePresent(s) /\ s.game.hasEnded THEN
    IF ~s.player.ended THEN Out("Loading", "132", s.player)
    ELSE Out("Exit", "135", s.player)
  ELSE Steps(s.introDone, s)

\* the tests of lines 87 and 91 in the other order
EmpiricaContext_LoadingBeforeExit(s) ==
  IF NotConnected(s) THEN Out("Connecting", "84", s.player)
  ELSE IF StillLoading(s) THEN Out("Loading", "95", s.player)
  ELSE IF PlayerEnded(s) THEN Out("Exit", "88", s.player)
  ELSE IF ExperimentClosed(s) THEN Out("NoGames", "103", s.player)
  ELSE IF NeedsConsent(s) THEN Out("Consent", "107", s.player)
  ELSE IF NeedsPlayer(s) THEN Out("CreateIdentity", "112", s.player)
  ELSE IF PlayerOrGameMissing(s) THEN Out("Loading", "117", s.player)
  ELSE [AfterCapture(CaptureURLParams(s)) EXCEPT !.wrote = ShouldCapture(s)]

\* the tests of lines 106 and 110 in the other order
EmpiricaContext_PlayerBeforeConsent(s) ==
  IF NotConnected(s) THEN Out("Connecting", "84", s.player)
  ELSE IF PlayerEnded(s) THEN Out("Exit", "88", s.player)
  ELSE IF StillLoading(s) THEN Out("Loading", "95", s.player)
  ELSE IF ExperimentClosed(s) THEN Out("NoGames", "103", s.player)
  ELSE IF NeedsPlayer(s) THEN Out("CreateIdentity", "112", s.player)
  ELSE IF NeedsConsent(s) THEN Out("Consent", "107", s.player)
  ELSE IF PlayerOrGameMissing(s) THEN Out("Loading", "117", s.player)
  ELSE [AfterCapture(CaptureURLParams(s)) EXCEPT !.wrote = ShouldCapture(s)]

\* the capture made before the test of line 116
EmpiricaContext_CaptureBeforeLoading(s) ==
  IF NotConnected(s) THEN Out("Connecting", "84", s.player)
  ELSE IF PlayerEnded(s) THEN Out("Exit", "88", s.player)
  ELSE IF StillLoading(s) THEN Out("Loading", "95", s.player)
  ELSE IF ExperimentClosed(s) THEN Out("NoGames", "103", s.player)
  ELSE IF NeedsConsent(s) THEN Out("Consent", "107", s.player)
  ELSE IF NeedsPlayer(s) THEN Out("CreateIdentity", "112", s.player)
  ELSE IF ~s.player.present THEN Out("Loading", "117", s.player)
  ELSE IF PlayerOrGameMissing(s)
    THEN [Out("Loading", "117", CaptureURLParams(s).player)
            EXCEPT !.wrote = ShouldCapture(s)]
  ELSE [AfterCapture(CaptureURLParams(s)) EXCEPT !.wrote = ShouldCapture(s)]

\* a pass that captures shows Loading and leaves the rest to the next pass
EmpiricaContext_LoadingWhileCapturing(s) ==
  IF NotConnected(s) THEN Out("Connecting", "84", s.player)
  ELSE IF PlayerEnded(s) THEN Out("Exit", "88", s.player)
  ELSE IF StillLoading(s) THEN Out("Loading", "95", s.player)
  ELSE IF ExperimentClosed(s) THEN Out("NoGames", "103", s.player)
  ELSE IF NeedsConsent(s) THEN Out("Consent", "107", s.player)
  ELSE IF NeedsPlayer(s) THEN Out("CreateIdentity", "112", s.player)
  ELSE IF PlayerOrGameMissing(s) THEN Out("Loading", "117", s.player)
  ELSE IF ShouldCapture(s)
    THEN [Out("Loading", "123", CaptureURLParams(s).player)
            EXCEPT !.wrote = TRUE]
  ELSE AfterCapture(s)

EmpiricaContext(s) ==
  IF NotConnected(s) THEN Out("Connecting", "84", s.player)
  ELSE IF PlayerEnded(s) THEN Out("Exit", "88", s.player)
  ELSE IF StillLoading(s) THEN Out("Loading", "95", s.player)
  ELSE IF ExperimentClosed(s) THEN Out("NoGames", "103", s.player)
  ELSE IF NeedsConsent(s) THEN Out("Consent", "107", s.player)
  ELSE IF NeedsPlayer(s) THEN Out("CreateIdentity", "112", s.player)
  ELSE IF PlayerOrGameMissing(s) THEN Out("Loading", "117", s.player)
  ELSE [AfterCapture(CaptureURLParams(s)) EXCEPT !.wrote = ShouldCapture(s)]

----------------------------------------------------------------------------
(* The values the hooks can return.                                        *)

Props == [unmanagedGame : BOOLEAN, unmanagedAssignment : BOOLEAN,
          disableConsent : BOOLEAN, disableNoGames : BOOLEAN,
          disableURLParamsCapture : BOOLEAN]

Globals == {NoGlobals} \cup [loaded : {TRUE}, experimentOpen : BOOLEAN]

\* what an earlier capture can have stored
URLParams ==
  {NoPlayer.urlParams} \cup
  {[set |-> TRUE, map |-> FromEntries(URLSearchParams(q))] : q \in Searches}

Treatments ==
  {NoTreatment, [present |-> TRUE, hasCount |-> FALSE, playerCount |-> 0]}
  \cup [present : {TRUE}, hasCount : {TRUE}, playerCount : 0..MaxPlayerCount]

Games ==
  {UndefinedGame, NullGame} \cup
  [state : {"present"}, status : BOOLEAN, hasEnded : BOOLEAN,
   treatment : Treatments]

PlayerLists == UNION {[1..n -> Member] : n \in 0..MaxPlayers}

PlayerSets == {NoPlayers} \cup [present : {TRUE}, list : PlayerLists]

----------------------------------------------------------------------------
(* The component as a state machine: it is mounted with whatever the hooks *)
(* return at that moment, and every change of a hook's value re-evaluates  *)
(* it, synchronously and completely.                                       *)

Snapshot ==
  [props |-> props, tajribaConnected |-> tajribaConnected,
   participantConnected |-> participantConnected, globals |-> globals,
   player |-> player, game |-> game, connecting |-> connecting,
   hasPlayer |-> hasPlayer, consented |-> consented, players |-> players,
   stage |-> stage, round |-> round, introDone |-> introDone,
   search |-> search]

\* one evaluation pass over the snapshot s: what it renders, and the player
\* with what the pass wrote on it
Render(s) ==
  LET out == EmpiricaContext(s)
  IN  /\ props' = s.props
      /\ tajribaConnected' = s.tajribaConnected
      /\ participantConnected' = s.participantConnected
      /\ globals' = s.globals
      /\ game' = s.game
      /\ connecting' = s.connecting
      /\ hasPlayer' = s.hasPlayer
      /\ consented' = s.consented
      /\ players' = s.players
      /\ stage' = s.stage
      /\ round' = s.round
      /\ introDone' = s.introDone
      /\ search' = s.search
      /\ player' = out.player
      /\ screen' = out.screen
      /\ via' = out.via
      /\ allReady' = out.ready
      /\ writes' = writes + (IF out.wrote THEN 1 ELSE 0)

\* The component is mounted in the snapshot s. The URL parameters s holds
\* were written by a pass before the page was loaded.
Mount(s) ==
  LET out == EmpiricaContext(s)
  IN  /\ props = s.props
      /\ tajribaConnected = s.tajribaConnected
      /\ participantConnected = s.participantConnected
      /\ globals = s.globals
      /\ game = s.game
      /\ connecting = s.connecting
      /\ hasPlayer = s.hasPlayer
      /\ consented = s.consented
      /\ players = s.players
      /\ stage = s.stage
      /\ round = s.round
      /\ introDone = s.introDone
      /\ search = s.search
      /\ player = out.player
      /\ screen = out.screen
      /\ via = out.via
      /\ allReady = out.ready
      /\ writes = (IF s.player.urlParams.set THEN 1 ELSE 0)
                  + (IF out.wrote THEN 1 ELSE 0)

AllFalse == [unmanagedGame |-> FALSE, unmanagedAssignment |-> FALSE,
             disableConsent |-> FALSE, disableNoGames |-> FALSE,
             disableURLParamsCapture |-> FALSE]

OneTreatment == [present |-> TRUE, hasCount |-> TRUE, playerCount |-> 1]

\* The player as a function of what varies.
PlayerWith(ended, gameID, urlParams, g, r, st) ==
  [present |-> TRUE, ended |-> ended, gameID |-> gameID,
   urlParams |-> urlParams, game |-> g, round |-> r, stage |-> st]

Snap(pr, tc, pc, gl, pl, g, c, hp, co, ps, st, r, idn, q) ==
  [props |-> pr, tajribaConnected |-> tc, participantConnected |-> pc,
   globals |-> gl, player |-> pl, game |-> g, connecting |-> c,
   hasPlayer |-> hp, consented |-> co, players |-> ps, stage |-> st,
   round |-> r, introDone |-> idn, search |-> q]

\* Mounted anywhere in a session: every combination of the props, the
\* connection flags, the globals, the consent, the player and the game, before
\* any URL parameters were captured. With a player and a game, the player, the
\* round and the stage are either all placed in a game of one player, or not
\* placed at all.
InitSession ==
  \E pr \in Props, tc \in BOOLEAN, pc \in BOOLEAN, gl \in Globals,
     c \in BOOLEAN, hp \in BOOLEAN, co \in BOOLEAN, idn \in BOOLEAN,
     present \in BOOLEAN,
     g \in {UndefinedGame, NullGame} \cup
           [state : {"present"}, status : BOOLEAN, hasEnded : BOOLEAN,
            treatment : {OneTreatment}] :
    \E e \in IF present THEN BOOLEAN ELSE {FALSE},
       gid \in IF present THEN BOOLEAN ELSE {FALSE},
       placed \in IF present /\ g.state = "present" THEN BOOLEAN ELSE {FALSE} :
      Mount(Snap(pr, tc, pc, gl,
                 [PlayerWith(e, gid, NoPlayer.urlParams, placed, placed, placed)
                    EXCEPT !.present = present],
                 g, c, hp, co,
                 IF placed THEN [present |-> TRUE, list |-> <<Placed>>]
                           ELSE NoPlayers,
                 placed, placed, idn, <<>>))

\* Mounted where the inner gate is reached: every combination of what
\* useAllReady reads.
InitReady ==
  \E um \in BOOLEAN, pg \in BOOLEAN, pr \in BOOLEAN, pst \in BOOLEAN,
     ps \in PlayerSets, st \in BOOLEAN, r \in BOOLEAN,
     g \in [state : {"present"}, status : BOOLEAN, hasEnded : BOOLEAN,
            treatment : Treatments] :
    Mount(Snap([AllFalse EXCEPT !.unmanagedGame = um], TRUE, TRUE,
               [loaded |-> TRUE, experimentOpen |-> TRUE],
               PlayerWith(FALSE, TRUE, NoPlayer.urlParams, pg, pr, pst),
               g, FALSE, TRUE, TRUE, ps, st, r, TRUE, <<>>))

\* Mounted where the capture of the URL parameters is reached: every query
\* string, with every value an earlier capture can have stored.
InitCapture ==
  \E pr \in Props, q \in Searches, u \in URLParams, e \in BOOLEAN,
     co \in BOOLEAN, idn \in BOOLEAN :
    Mount(Snap(pr, TRUE, TRUE, [loaded |-> TRUE, experimentOpen |-> TRUE],
               PlayerWith(e, TRUE, u, FALSE, FALSE, FALSE),
               [state |-> "present", status |-> FALSE, hasEnded |-> FALSE,
                treatment |-> OneTreatment],
               FALSE, TRUE, co, NoPlayers, FALSE, FALSE, idn, q))

Init == InitSession \/ InitReady \/ InitCapture

----------------------------------------------------------------------------
(* Steps: an evaluation pass after nothing changed, or after one of the     *)
(* events that move a session forward or interrupt it.                      *)

\* a pass with every hook returning what it returned before
Rerender == Render(Snapshot)

\* the onConsent callback of line 107 was called
ConsentGiven ==
  /\ screen = "Consent"
  /\ Render([Snapshot EXCEPT !.consented = TRUE])

\* the onPlayerID callback of line 112 was called
PlayerIDSubmitted ==
  /\ screen = "CreateIdentity"
  /\ Render([Snapshot EXCEPT !.hasPlayer = TRUE])

\* the intro steps were completed
IntroFinished ==
  /\ screen = "IntroSteps"
  /\ Render([Snapshot EXCEPT !.introDone = TRUE])

\* the connection to the backend was lost
TransportDrops ==
  /\ tajribaConnected
  /\ Render([Snapshot EXCEPT !.tajribaConnected = FALSE])

\* the connection to the backend was made again
TransportReconnects ==
  /\ ~tajribaConnected
  /\ Render([Snapshot EXCEPT !.tajribaConnected = TRUE])

\* the game ended
GameEnds ==
  /\ game.state = "present"
  /\ ~game.hasEnded
  /\ Render([Snapshot EXCEPT !.game.hasEnded = TRUE])

\* the player was marked as ended
PlayerEnds ==
  /\ player.present
  /\ ~player.ended
  /\ Render([Snapshot EXCEPT !.player.ended = TRUE])

Next ==
  \/ Rerender
  \/ ConsentGiven
  \/ PlayerIDSubmitted
  \/ IntroFinished
  \/ TransportDrops
  \/ TransportReconnects
  \/ GameEnds
  \/ PlayerEnds

Spec == Init /\ [][Next]_vars

----------------------------------------------------------------------------
(* EmpiricaInnerContext evaluated on its own, over every combination of    *)
(* what it and useAllReady read.                                           *)

RenderInner(s) ==
  LET out == EmpiricaInnerContext(s)
  IN  /\ player' = s.player
      /\ game' = s.game
      /\ screen' = out.screen
      /\ via' = out.via
      /\ allReady' = out.ready
      /\ UNCHANGED <<props, tajribaConnected, participantConnected, globals,
                     connecting, hasPlayer, consented, players, stage, round,
                     introDone, search, writes>>

MountInner(s) ==
  LET out == EmpiricaInnerContext(s)
  IN  /\ props = s.props
      /\ tajribaConnected = s.tajribaConnected
      /\ participantConnected = s.participantConnected
      /\ globals = s.globals
      /\ game = s.game
      /\ connecting = s.connecting
      /\ hasPlayer = s.hasPlayer
      /\ consented = s.consented
      /\ players = s.players
      /\ stage = s.stage
      /\ round = s.round
      /\ introDone = s.introDone
      /\ search = s.search
      /\ player = s.player
      /\ screen = out.screen
      /\ via = out.via
      /\ allReady = out.ready
      /\ writes = 0

InitInner ==
  \E um \in BOOLEAN, present \in BOOLEAN, e \in BOOLEAN, pg \in BOOLEAN,
     pr \in BOOLEAN, pst \in BOOLEAN, ps \in PlayerSets, st \in BOOLEAN,
     r \in BOOLEAN, g \in Games :
    /\ present \/ (~e /\ ~pg /\ ~pr /\ ~pst)
    /\ MountInner(Snap([AllFalse EXCEPT !.unmanagedGame = um], TRUE, TRUE,
                       [loaded |-> TRUE, experimentOpen |-> TRUE],
                       [PlayerWith(e, TRUE, NoPlayer.urlParams, pg, pr, pst)
                          EXCEPT !.present = present, !.gameID = present],
                       g, FALSE, TRUE, TRUE, ps, st, r, TRUE, <<>>))

RerenderInner == RenderInner(Snapshot)

GameStartsInner ==
  /\ game.state = "present"
  /\ ~game.status
  /\ RenderInner([Snapshot EXCEPT !.game.status = TRUE])

GameEndsInner ==
  /\ game.state = "present"
  /\ ~game.hasEnded
  /\ RenderInner([Snapshot EXCEPT !.game.hasEnded = TRUE])

PlayerEndsInner ==
  /\ player.present
  /\ ~player.ended
  /\ RenderInner([Snapshot EXCEPT !.player.ended = TRUE])

NextInner ==
  \/ RerenderInner
  \/ GameStartsInner
  \/ GameEndsInner
  \/ PlayerEndsInner

SpecInner == InitInner /\ [][NextInner]_vars

----------------------------------------------------------------------------
(* Properties.                                                             *)

Screens == {"Connecting", "Loading", "NoGames", "Consent", "CreateIdentity",
            "Lobby", "Exit", "Children", "IntroSteps"}

\* the return statements of EmpiricaContext before the one of line 139
OuterVia == {"84", "88", "95", "103", "107", "112", "117", "127", "132", "135"}

\* the pass went on to the intro steps and the inner gate
HandedOver == via \notin OuterVia

\* the pass went past the guards of lines 83-118
ReachedCapture == via \notin {"84", "88", "95", "103", "107", "112", "117"}

Connected == tajribaConnected /\ ~connecting

AllMembersPlaced ==
  \A i \in 1..Len(players.list) :
    players.list[i].game /\ players.list[i].round /\ players.list[i].stage

\* C1: every snapshot yields exactly one of the named screens, never none.
C1_ExactlyOneScreen == screen \in Screens

C5_EndedShowsExitOrLoading ==
  (player.present /\ player.ended) => screen \in {"Exit", "Loading"}

\* C5, amended: with an ended player the gate shows Exit whenever the transport
\* is connected and the identity is not being resolved, and Connecting
\* otherwise, whatever the other values are.
C5_EndedShowsExitWhenConnected ==
  (player.present /\ player.ended) =>
    screen = (IF Connected THEN "Exit" ELSE "Connecting")

\* C5, witness: an ended player is shown Exit while the globals are not loaded
\* and consent was not given.
C5_Witness ==
  /\ player.present /\ player.ended /\ Connected
  /\ ~globals.loaded /\ ~consented /\ ~props.disableConsent
  /\ screen = "Exit"

\* { a: "1", b: "2" }
DocumentedParams ==
  [k \in {<<"a">>, <<"b">>} |-> IF k = <<"a">> THEN <<"1">> ELSE <<"2">>]

\* what the query strings of Searches are to be parsed to
ExpectedParams(q) == IF q = <<>> THEN EmptyMap ELSE DocumentedParams

\* C6: the URL parameters are written at most once: a pass that reaches the
\* capture with none stored, and the capture not disabled, stores the parsed
\* query string, and no pass writes once they are stored.
C6_CaptureOnce ==
  /\ [](writes <= 1)
  /\ []((ReachedCapture /\ ~props.disableURLParamsCapture)
          => player.urlParams.set)
  /\ [][/\ player.urlParams.set =>
             (player'.urlParams = player.urlParams /\ writes' = writes)
        /\ (/\ ~player.urlParams.set
            /\ ReachedCapture'
            /\ ~props.disableURLParamsCapture) =>
             /\ player'.urlParams = [set |-> TRUE, map |-> ExpectedParams(search')]
             /\ writes' = writes + 1]_vars

\* C6, witness: parameters captured from the documented query string are still
\* stored, after one write, where the page has no query string.
C6_Witness ==
  /\ ReachedCapture /\ ~props.disableURLParamsCapture
  /\ search = <<>>
  /\ player.urlParams = [set |-> TRUE, map |-> DocumentedParams]
  /\ writes = 1

\* C7: with unmanagedAssignment, a connected player who exists is shown the
\* contents whatever the game is (stated here for a game that useGame has
\* resolved: a game in any state, or none).
C7_UnmanagedAssignmentShowsContents ==
  (/\ props.unmanagedAssignment
   /\ Connected /\ participantConnected
   /\ globals.loaded /\ globals.experimentOpen
   /\ (consented \/ props.disableConsent)
   /\ hasPlayer /\ player.present /\ ~player.ended
   /\ game.state # "undefined")
    => screen = "Children"

\* C8: with unmanagedGame, a player past the consent, the player creation and
\* the intro steps, and not sent to the exit steps, is shown the contents
\* whether or not there is a game, and whatever its state is (stated here for
\* a game that useGame has resolved and that has not ended, and for passes in
\* which useAllReady does not throw).
C8_UnmanagedGameShowsContents ==
  (/\ props.unmanagedGame
   /\ Connected /\ participantConnected
   /\ globals.loaded /\ globals.experimentOpen
   /\ (consented \/ props.disableConsent)
   /\ hasPlayer /\ player.present /\ ~player.ended
   /\ introDone
   /\ game.state # "undefined" /\ ~game.hasEnded
   /\ allReady # "TypeError")
    => screen = "Children"

\* C9, as stated: with neither unmanagedGame nor unmanagedAssignment the
\* contents are shown only if useAllReady holds, with at least playerCount
\* players in the list, each of them with its game, round and stage.
C9_ContentsOnlyWithHeadcount ==
  (~props.unmanagedGame /\ ~props.unmanagedAssignment /\ screen = "Children")
    => /\ allReady = "true"
       /\ players.present
       /\ AllMembersPlaced
       /\ game.treatment.hasCount
       /\ Len(players.list) >= game.treatment.playerCount

\* C9, amended: the same, with the headcount required only of a playerCount
\* that is present.
C9_ContentsOnlyWhenReady ==
  (~props.unmanagedGame /\ ~props.unmanagedAssignment /\ screen = "Children")
    => /\ allReady = "true"
       /\ players.present
       /\ AllMembersPlaced
       /\ (game.treatment.hasCount =>
             Len(players.list) >= game.treatment.playerCount)

\* C9, witness: a managed game with a full list of placed players shows the
\* contents.
C9_Witness ==
  /\ ~props.unmanagedGame /\ ~props.unmanagedAssignment
  /\ screen = "Children" /\ via = "195"
  /\ game.treatment.hasCount
  /\ Len(players.list) > 1
  /\ Len(players.list) = game.treatment.playerCount

\* C10: with disableNoGames the NoGames screen is never shown.
C10_NoGamesDisabled == props.disableNoGames => screen # "NoGames"

\* C10, witness: with disableNoGames, a closed experiment and no player, the
\* gate goes on to the consent.
C10_Witness ==
  /\ props.disableNoGames
  /\ Connected /\ globals.loaded /\ ~globals.experimentOpen
  /\ ~hasPlayer /\ ~player.present
  /\ screen = "Consent"

\* the NoGames guard of lines 98-102 does not apply
PastNoGames ==
  props.disableNoGames \/ globals.experimentOpen
  \/ (hasPlayer /\ player.present /\ player.gameID)

\* C11, as stated: with the transport connected and the globals and the player
\* loaded, an ended game of a player who has not ended is shown Loading.
C11_EndedGameShowsLoading ==
  (/\ Connected /\ globals.loaded
   /\ player.present /\ ~player.ended
   /\ game.state = "present" /\ game.hasEnded)
    => screen = "Loading"

\* C11, amended: with the transport connected, the globals and the player
\* loaded, hasPlayer set, the consent given or disabled, the NoGames guard not
\* applying and unmanagedAssignment off, an ended game of a player who has not
\* ended is shown Loading in every pass; the pass in which the player becomes
\* ended, with the transport connected, shows Exit.
C11_EndedGameLoadingThenExit ==
  /\ []((/\ Connected /\ globals.loaded
         /\ player.present /\ ~player.ended
         /\ game.state = "present" /\ game.hasEnded
         /\ hasPlayer /\ (consented \/ props.disableConsent)
         /\ PastNoGames /\ ~props.unmanagedAssignment)
          => screen = "Loading")
  /\ [][(/\ player.present /\ ~player.ended
         /\ player'.present /\ player'.ended
         /\ tajribaConnected' /\ ~connecting')
          => screen' = "Exit"]_vars

\* C11, witness: the pass of line 132, waiting for the player to be ended.
C11_Witness ==
  /\ game.state = "present" /\ game.hasEnded /\ game.status
  /\ player.present /\ ~player.ended
  /\ screen = "Loading" /\ via = "132"

\* C12, as stated: connected, without a player, with the globals loaded and
\* the experiment open, the gate shows CreateIdentity.
C12_NoPlayerShowsCreateIdentity ==
  (/\ Connected /\ ~hasPlayer /\ ~player.present
   /\ globals.loaded /\ globals.experimentOpen)
    => screen = "CreateIdentity"

\* C12, amended: the same, once the consent is given or disabled.
C12_ConsentedNoPlayerShowsCreateIdentity ==
  (/\ Connected /\ ~hasPlayer /\ ~player.present
   /\ globals.loaded /\ globals.experimentOpen
   /\ (consented \/ props.disableConsent))
    => screen = "CreateIdentity"

\* C12, witness: CreateIdentity in an open experiment where NoGames is not
\* disabled.
C12_Witness ==
  /\ Connected /\ ~hasPlayer /\ ~player.present
  /\ globals.loaded /\ globals.experimentOpen /\ ~props.disableNoGames
  /\ consented /\ ~props.disableConsent
  /\ screen = "CreateIdentity" /\ via = "112"

\* C13: no pass raises an error; missing data gives Loading or not ready.
C13_NeverThrows == allReady # "TypeError" /\ screen # "Error"

\* the step is a pass over unchanged values of the hooks
SamePass ==
  /\ UNCHANGED <<props, tajribaConnected, participantConnected, globals, game,
                 connecting, hasPlayer, consented, players, stage, round,
                 introDone, search>>
  /\ player' = [player EXCEPT !.urlParams = player'.urlParams]

\* C14: a pass changes nothing but the URL parameters of the player, and
\* writes them only past the guards of lines 83-118 and only with the capture
\* not disabled.
C14_PassWritesOnlyURLParams ==
  [][/\ Rerender => SamePass
     /\ [player' EXCEPT !.urlParams = player.urlParams, !.ended = player.ended]
          = player
     /\ writes' # writes =>
          /\ writes' = writes + 1
          /\ ReachedCapture'
          /\ ~props.disableURLParamsCapture
          /\ ~player.urlParams.set
     /\ player'.urlParams # player.urlParams => writes' # writes]_vars

\* C14, witness: the documented query string was captured by the one write of
\* a pass that went on to the Lobby.
C14_Witness ==
  /\ writes = 1 /\ ~props.disableURLParamsCapture
  /\ search # <<>>
  /\ player.urlParams = [set |-> TRUE, map |-> DocumentedParams]
  /\ screen = "Lobby"

\* C15: snapshots that differ only in disableURLParamsCapture and in the URL
\* parameters of the player are shown the same screen.
C15_CaptureDoesNotAlterScreen ==
  \A d \in BOOLEAN, u \in URLParams :
    LET other == [Snapshot EXCEPT !.props.disableURLParamsCapture = d,
                                  !.player.urlParams =
                                     IF player.present THEN u ELSE @]
        out   == EmpiricaContext(other)
    IN  out.screen = screen /\ out.via = via

\* C15, witness: with the capture disabled and nothing stored the pass still
\* goes on to the Lobby.
C15_Witness ==
  /\ props.disableURLParamsCapture /\ ~player.urlParams.set
  /\ writes = 0
  /\ ReachedCapture /\ screen = "Lobby"

\* C16: without globals, past the first two guards, the gate shows Loading;
\* NoGames is shown only with the globals loaded, the experiment not open,
\* NoGames not disabled and no player or no gameID, so never to a player who
\* has a gameID.
C16_NoGamesOnlyWhenLoadedAndClosed ==
  /\ (Connected /\ ~(player.present /\ player.ended) /\ ~globals.loaded)
       => screen = "Loading"
  /\ screen = "NoGames" =>
       /\ globals.loaded /\ ~globals.experimentOpen
       /\ ~props.disableNoGames
       /\ (~hasPlayer \/ ~player.present \/ ~player.gameID)
  /\ (hasPlayer /\ player.present /\ player.gameID) => screen # "NoGames"

\* C16, witness: a player with a gameID in a closed experiment is shown the
\* Lobby.
C16_Witness ==
  /\ Connected /\ globals.loaded /\ ~globals.experimentOpen
  /\ ~props.disableNoGames
  /\ hasPlayer /\ player.present /\ player.gameID
  /\ screen = "Lobby"

\* C17: with the consent not disabled, CreateIdentity is never shown before
\* the consent is given; without a player and without consent the gate shows
\* Consent or the screen of an earlier guard.
C17_ConsentBeforeCreateIdentity ==
  (~props.disableConsent /\ ~consented) =>
    /\ screen # "CreateIdentity"
    /\ ~hasPlayer =>
         screen \in {"Connecting", "Exit", "Loading", "NoGames", "Consent"}

\* C17, witness: CreateIdentity is shown once the consent was given.
C17_Witness ==
  /\ ~props.disableConsent /\ consented /\ ~hasPlayer
  /\ ~globals.experimentOpen /\ props.disableNoGames
  /\ screen = "CreateIdentity"

\* everything useAllReady wants present is present
AllPresent ==
  /\ player.present /\ players.present /\ stage /\ round
  /\ game.state = "present"
  /\ player.game /\ player.round /\ player.stage

\* C18: with a treatment that has no playerCount, useAllReady is true exactly
\* when everything is present and every member has its game, round and stage.
C18_UndefinedHeadcountDoesNotBlock ==
  (allReady # "none" /\ game.treatment.present /\ ~game.treatment.hasCount)
    => (allReady = "true" <=> (AllPresent /\ AllMembersPlaced))

\* C18, witness: ready with two placed players and no playerCount.
C18_Witness ==
  /\ game.treatment.present /\ ~game.treatment.hasCount
  /\ Len(players.list) > 1
  /\ allReady = "true"

\* C19: Exit is shown exactly when the transport is connected, the identity
\* is not being resolved and the player is ended; the Exit of lines 135 and
\* 191 is never the one that decides.
C19_ExitOnlyForEndedPlayer ==
  /\ screen = "Exit" <=> (Connected /\ player.present /\ player.ended)
  /\ via \notin {"135", "191"}

\* C19, witness: an ended player of an ended game is shown Exit by line 88.
C19_Witness ==
  /\ game.state = "present" /\ game.hasEnded
  /\ player.present /\ player.ended
  /\ screen = "Exit" /\ via = "88"

\* C20: through the outer gate the inner gate never shows the Lobby of an
\* ended game, and never returns on line 178 (no game), 188 or 191 (ended
\* game).
C20_InnerBranchesUnreachable ==
  /\ screen = "Lobby" => (game.state = "present" /\ ~game.hasEnded)
  /\ via \notin {"178", "188", "191"}

\* C20, witness: the inner gate is reached without a game only where the game
\* is unmanaged, and shows the contents.
C20_Witness ==
  /\ game.state = "null" /\ props.unmanagedGame /\ introDone
  /\ screen = "Children" /\ via = "176"

====
